---- MODULE Spec2Model ----
(***************************************************************************)
(* Model of the `ensure` crate (src/src/lib.rs): the Ensure trait's        *)
(* provided methods ensure() and ensure_verify(), the closure adapters,    *)
(* the free function ensure() and the Existential convenience methods.     *)
(*                                                                         *)
(* check_ensure() and meet() are supplied by the implementor: their        *)
(* outcomes are inputs, drawn when the callback is invoked.  Every call    *)
(* into implementor code (clone, check_ensure, the closure behind it,      *)
(* meet, the closure behind it, From<VerificationError>) is appended to    *)
(* `log`, so the number and the order of the invocations can be stated.    *)
(***************************************************************************)
EXTENDS Integers, Sequences, FiniteSets

VARIABLES
    pc,       \* position of the running call: "idle", an entry point, a match site, "done"
    entry,    \* the entry point the caller invoked
    impl,     \* "closure" (blanket impls for FnOnce) or "type" (a named implementor)
    target,   \* the target type parameter T of Ensure<T> the call resolves to
    first,    \* what the check_ensure() on self returned
    acted,    \* what meet() returned
    second,   \* what the check_ensure() on the clone returned
    action,   \* the subject whose check produced the action not yet consumed
    held,     \* `result` of line 101, the value meet() returned
    log,      \* the invocations of implementor code, in order
    result,   \* the value the entry point returned
    ref       \* outcome of the latest completed x.ensure() method call, kept by the caller

vars == <<pc, entry, impl, target, first, acted, second, action, held, log, result, ref>>

\* Bounds of the model: the number of distinct values of the Met type and of
\* the error type.
NumValues == 2
NumErrors == 2

Values == 1..NumValues
Errors == 1..NumErrors

Impls == {"closure", "type"}
Targets == {"T", "Present", "Absent"}
Entries == {"ensure", "ensure_fn", "ensure_verify", "ensure_present", "ensure_absent"}

\* Result<T, E>
Ok(v) == [kind |-> "Ok", val |-> v]
Err(e) == [kind |-> "Err", val |-> e]

\* CheckEnsureResult<M, A>
Met(m) == [kind |-> "Met", val |-> m]
EnsureAction == [kind |-> "EnsureAction", val |-> 0]

None == [kind |-> "none", val |-> 0]

\* What an implementor's check_ensure() can return.
CheckOutcomes == {Err(e) : e \in Errors} \cup {Met(m) : m \in Values} \cup {EnsureAction}

\* What an implementor's meet() can return.
MeetOutcomes == {Ok(v) : v \in Values} \cup {Err(e) : e \in Errors}

Event(op, on, tgt, n) == [op |-> op, on |-> on, tgt |-> tgt, n |-> n]

\* Mutant of Try: the error is replaced by a default one.
TryLossy(e) == 1

\* The `?` operator: From::from on the error.  check_ensure(), meet(), ensure()
\* and ensure_verify() share one error type, so the conversion is the
\* standard library's reflexive From<E> for E.
Try(e) == e

\* x.check_ensure(): for a closure the blanket impl calls the closure once.
CheckEnsureCall(i, on, tgt) ==
    IF i = "closure"
        THEN <<Event("check_ensure", on, tgt, 0), Event("check_closure", on, tgt, 0)>>
        ELSE <<Event("check_ensure", on, tgt, 0)>>

\* Mutant of MeetCall: the action is invoked a second time.
MeetCallTwice(i, on, tgt) ==
    IF i = "closure"
        THEN <<Event("meet", on, tgt, 0), Event("action_closure", on, tgt, 0),
               Event("meet", on, tgt, 0), Event("action_closure", on, tgt, 0)>>
        ELSE <<Event("meet", on, tgt, 0), Event("meet", on, tgt, 0)>>

\* a.meet(): for a closure the blanket impl calls the closure once.
MeetCall(i, on, tgt) ==
    IF i = "closure"
        THEN <<Event("meet", on, tgt, 0), Event("action_closure", on, tgt, 0)>>
        ELSE <<Event("meet", on, tgt, 0)>>

\* Mutant of EnsureMatch: the Met arm runs the action too.
EnsureMatchAlwaysMeet(o) ==
    IF o.kind = "Err" THEN [pc |-> "done", result |-> Err(Try(o.val))]
    ELSE [pc |-> "ensure_meet", result |-> None]

\* Mutant of EnsureMatch: the Met arm returns a value tagged as already
\* satisfied instead of the bare Ok(met).
EnsureMatchTagged(o) ==
    IF o.kind = "Err" THEN [pc |-> "done", result |-> Err(Try(o.val))]
    ELSE IF o.kind = "Met"
        THEN [pc |-> "done", result |-> [kind |-> "AlreadySatisfied", val |-> o.val]]
    ELSE [pc |-> "ensure_meet", result |-> None]

\* Ensure::ensure, the match on self.check_ensure()?
EnsureMatch(o) ==
    IF o.kind = "Err" THEN [pc |-> "done", result |-> Err(Try(o.val))]
    ELSE IF o.kind = "Met" THEN [pc |-> "done", result |-> Ok(o.val)]
    ELSE [pc |-> "ensure_meet", result |-> None]

\* Mutant of EnsureAfterMeet: a failed action sends the call back to the check.
EnsureAfterMeetRetry(r) ==
    IF r.kind = "Err" THEN [pc |-> "ensure", result |-> None]
    ELSE [pc |-> "done", result |-> r]

\* Ensure::ensure, the arm EnsureAction(meet) => meet.meet(): the tail expression.
EnsureAfterMeet(r) == [pc |-> "done", result |-> r]

\* Ensure::ensure_verify, the match on self.check_ensure()?
VerifyMatch(o) ==
    IF o.kind = "Err" THEN [pc |-> "done", result |-> Err(Try(o.val))]
    ELSE IF o.kind = "Met" THEN [pc |-> "done", result |-> Ok(o.val)]
    ELSE [pc |-> "verify_meet", result |-> None]

\* Ensure::ensure_verify, let result = action.meet()?
VerifyAfterMeet(r) ==
    IF r.kind = "Err" THEN [pc |-> "done", result |-> Err(Try(r.val)), held |-> 0]
    ELSE [pc |-> "verify_recheck", result |-> None, held |-> r.val]

\* Mutant of VerifySubject: the second check runs on the original, not the clone.
VerifySubjectOriginal == "self"

\* The subject the second check runs on.
VerifySubject == "verify"

\* Mutant of VerifyRematch: a second EnsureAction is taken for success.
VerifyRematchTrusting(o, h, ve) ==
    IF o.kind = "Err" THEN [result |-> Err(Try(o.val)), events |-> <<>>]
    ELSE [result |-> Ok(h), events |-> <<>>]

\* Mutant of VerifyRematch: the re-observed value is returned.
VerifyRematchFresh(o, h, ve) ==
    IF o.kind = "Err" THEN [result |-> Err(Try(o.val)), events |-> <<>>]
    ELSE IF o.kind = "Met" THEN [result |-> Ok(o.val), events |-> <<>>]
    ELSE [result |-> Err(ve),
          events |-> <<Event("from_VerificationError", "none", "none", ve)>>]

\* Mutant of VerifyRematch: a failed second check is reported as
\* VerificationError.
VerifyRematchMasking(o, h, ve) ==
    IF o.kind = "Met" THEN [result |-> Ok(h), events |-> <<>>]
    ELSE [result |-> Err(ve),
          events |-> <<Event("from_VerificationError", "none", "none", ve)>>]

\* Ensure::ensure_verify, the match on verify.check_ensure()?; h is `result`
\* of line 101 and ve what the implementor's From<VerificationError> yields.
VerifyRematch(o, h, ve) ==
    IF o.kind = "Err" THEN [result |-> Err(Try(o.val)), events |-> <<>>]
    ELSE IF o.kind = "Met" THEN [result |-> Ok(h), events |-> <<>>]
    ELSE [result |-> Err(ve),
          events |-> <<Event("from_VerificationError", "none", "none", ve)>>]

\* Mutant of AbsentTarget: ensure_absent() ensures the Present target.
AbsentTargetSwapped == "Present"

\* The impl of Ensure<_> that self.ensure() resolves to in ensure_present()
\* and in ensure_absent(), from the method's return type.
PresentTarget == "Present"
AbsentTarget == "Absent"

NoRef ==
    [impl |-> "none", target |-> "none", first |-> None, acted |-> None,
     result |-> None, log |-> <<>>]

Init ==
    /\ pc = "idle"
    /\ entry = "none"
    /\ impl = "none"
    /\ target = "none"
    /\ first = None
    /\ acted = None
    /\ second = None
    /\ action = "none"
    /\ held = 0
    /\ log = <<>>
    /\ result = None
    /\ ref = NoRef

\* The caller invokes entry point e on a subject implemented as i, for target
\* type t.  Closures implement Ensure<T> for one T only, so the Existential
\* methods are called on named types; they fix the target themselves.
Call(e, i, t) ==
    /\ pc = "idle"
    /\ e \in {"ensure_present", "ensure_absent"} => i = "type" /\ t = "T"
    /\ pc' = e
    /\ entry' = e
    /\ impl' = i
    /\ target' = IF e \in {"ensure_present", "ensure_absent"} THEN "none" ELSE t
    /\ first' = None
    /\ acted' = None
    /\ second' = None
    /\ action' = "none"
    /\ held' = 0
    /\ log' = <<>>
    /\ result' = None
    /\ UNCHANGED ref

\* pub fn ensure(ensure: R): ensure.ensure()
FreeEnsure ==
    /\ pc = "ensure_fn"
    /\ pc' = "ensure"
    /\ UNCHANGED <<entry, impl, target, first, acted, second, action, held, log, result, ref>>

\* Existential::ensure_present: self.ensure() at Ensure<Present<T>>
EnsurePresent ==
    /\ pc = "ensure_present"
    /\ pc' = "ensure"
    /\ target' = PresentTarget
    /\ UNCHANGED <<entry, impl, first, acted, second, action, held, log, result, ref>>

\* Existential::ensure_absent: self.ensure() at Ensure<Absent<T>>
EnsureAbsent ==
    /\ pc = "ensure_absent"
    /\ pc' = "ensure"
    /\ target' = AbsentTarget
    /\ UNCHANGED <<entry, impl, first, acted, second, action, held, log, result, ref>>

\* Ensure::ensure: match self.check_ensure()?
EnsureCheck ==
    /\ pc = "ensure"
    /\ \E o \in CheckOutcomes :
        /\ pc' = EnsureMatch(o).pc
        /\ result' = EnsureMatch(o).result
        /\ first' = o
        /\ action' = IF o.kind = "EnsureAction" THEN "self" ELSE "none"
    /\ log' = log \o CheckEnsureCall(impl, "self", target)
    /\ UNCHANGED <<entry, impl, target, acted, second, held, ref>>

\* Ensure::ensure: meet.meet()
EnsureMeet ==
    /\ pc = "ensure_meet"
    /\ \E r \in MeetOutcomes :
        /\ pc' = EnsureAfterMeet(r).pc
        /\ result' = EnsureAfterMeet(r).result
        /\ acted' = r
    /\ log' = log \o MeetCall(impl, action, target)
    /\ action' = "none"
    /\ UNCHANGED <<entry, impl, target, first, second, held, ref>>

\* Ensure::ensure_verify: let verify = self.clone()
VerifyClone ==
    /\ pc = "ensure_verify"
    /\ pc' = "verify_check"
    /\ log' = Append(log, Event("clone", "self", target, 0))
    /\ UNCHANGED <<entry, impl, target, first, acted, second, action, held, result, ref>>

\* Ensure::ensure_verify: match self.check_ensure()?
VerifyCheck ==
    /\ pc = "verify_check"
    /\ \E o \in CheckOutcomes :
        /\ pc' = VerifyMatch(o).pc
        /\ result' = VerifyMatch(o).result
        /\ first' = o
        /\ action' = IF o.kind = "EnsureAction" THEN "self" ELSE "none"
    /\ log' = log \o CheckEnsureCall(impl, "self", target)
    /\ UNCHANGED <<entry, impl, target, acted, second, held, ref>>

\* Ensure::ensure_verify: let result = action.meet()?
VerifyMeet ==
    /\ pc = "verify_meet"
    /\ \E r \in MeetOutcomes :
        /\ pc' = VerifyAfterMeet(r).pc
        /\ result' = VerifyAfterMeet(r).result
        /\ held' = VerifyAfterMeet(r).held
        /\ acted' = r
    /\ log' = log \o MeetCall(impl, action, target)
    /\ action' = "none"
    /\ UNCHANGED <<entry, impl, target, first, second, ref>>

\* Ensure::ensure_verify: match verify.check_ensure()?; the action of the
\* EnsureAction(_action) arm is dropped.
VerifyRecheck ==
    /\ pc = "verify_recheck"
    /\ \E o \in CheckOutcomes, ve \in Errors :
        /\ result' = VerifyRematch(o, held, ve).result
        /\ log' = log \o CheckEnsureCall(impl, VerifySubject, target)
                      \o VerifyRematch(o, held, ve).events
        /\ second' = o
    /\ pc' = "done"
    /\ action' = "none"
    /\ UNCHANGED <<entry, impl, target, first, acted, held, ref>>

\* The entry point returns to the caller, which keeps the outcome of a call
\* of the method x.ensure() to compare later calls with.
Return ==
    /\ pc = "done"
    /\ pc' = "idle"
    /\ ref' = IF entry = "ensure"
                THEN [impl |-> impl, target |-> target, first |-> first,
                      acted |-> acted, result |-> result, log |-> log]
                ELSE ref
    /\ entry' = "none"
    /\ impl' = "none"
    /\ target' = "none"
    /\ first' = None
    /\ acted' = None
    /\ second' = None
    /\ action' = "none"
    /\ held' = 0
    /\ log' = <<>>
    /\ result' = None

Next ==
    \/ \E e \in Entries, i \in Impls, t \in Targets : Call(e, i, t)
    \/ FreeEnsure
    \/ EnsurePresent
    \/ EnsureAbsent
    \/ EnsureCheck
    \/ EnsureMeet
    \/ VerifyClone
    \/ VerifyCheck
    \/ VerifyMeet
    \/ VerifyRecheck
    \/ Return

Spec == Init /\ [][Next]_vars

(***************************************************************************)
(* Properties.                                                             *)
(***************************************************************************)

\* Positions in the log of the invocations of op.
Idx(op) == {i \in DOMAIN log : log[i].op = op}

Num(op) == Cardinality(Idx(op))

\* The caller's reference call x.ensure() was made for the same target type
\* and its callbacks behaved as those of the running call.
SameAsRef(tgt) ==
    /\ ref.target = tgt
    /\ ref.first = first
    /\ ref.acted = acted

\* C1: when check_ensure() reports Met(v), ensure() returns Ok(v) and meet()
\* is not invoked during the call (neither the action nor a closure behind it).
C1_MetReturnsValueNoAction ==
    (entry = "ensure" /\ first.kind = "Met") =>
        /\ pc = "done"
        /\ result = Ok(first.val)
        /\ Num("meet") = 0
        /\ Num("action_closure") = 0
        /\ action = "none"

C1_Witness ==
    /\ pc = "done"
    /\ entry = "ensure"
    /\ first = Met(2)
    /\ result = Ok(2)
    /\ Num("check_ensure") = 1

\* C2: when check_ensure() reports EnsureAction(a), ensure() invokes a.meet()
\* exactly once, after the check and never before it, on the action that check
\* produced, and returns v when meet() succeeds with v.
C2_SingleInvocation ==
    entry = "ensure" =>
        /\ \A m \in Idx("meet") :
            /\ log[m].on = "self"
            /\ \E c \in Idx("check_ensure") : c < m
            /\ \A c \in Idx("check_ensure") : c < m
        /\ Num("meet") <= 1
        /\ (pc = "done" /\ first.kind = "EnsureAction") => Num("meet") = 1
        /\ (pc = "done" /\ first.kind = "EnsureAction" /\ acted.kind = "Ok") =>
                result = Ok(acted.val)
        /\ (pc = "ensure_meet") => (first.kind = "EnsureAction" /\ Num("meet") = 0)

C2_Witness ==
    /\ pc = "done"
    /\ entry = "ensure"
    /\ first.kind = "EnsureAction"
    /\ acted = Ok(2)
    /\ result = Ok(2)
    /\ Num("meet") = 1

\* C3: when check_ensure() fails with E, ensure() returns Err(E), the same
\* error, and no action is constructed or invoked.
C3_CheckErrorPropagates ==
    (entry = "ensure" /\ first.kind = "Err") =>
        /\ pc = "done"
        /\ result = Err(first.val)
        /\ Num("meet") = 0
        /\ action = "none"

C3_Witness ==
    /\ pc = "done"
    /\ entry = "ensure"
    /\ first = Err(2)
    /\ result = Err(2)

\* C4: when check_ensure() reports EnsureAction(a) and a.meet() fails with E2,
\* ensure() is finished and returns Err(E2) unmodified: meet() ran once and
\* check_ensure() ran once (no retry, no second check).
C4_MeetErrorPropagates ==
    (entry = "ensure" /\ acted.kind = "Err") =>
        /\ pc = "done"
        /\ first.kind = "EnsureAction"
        /\ result = Err(acted.val)
        /\ Num("meet") = 1
        /\ Num("check_ensure") = 1

C4_Witness ==
    /\ pc = "done"
    /\ entry = "ensure"
    /\ first.kind = "EnsureAction"
    /\ acted = Err(2)
    /\ result = Err(2)

\* C5: in ensure_verify(), when the first check reports EnsureAction, meet()
\* succeeds and the check on the clone reports EnsureAction again, the result
\* is the error converted from VerificationError, not the action's value, and
\* the action of the second check is never invoked.
C5_VerificationFailure ==
    (/\ pc = "done"
     /\ entry = "ensure_verify"
     /\ first.kind = "EnsureAction"
     /\ acted.kind = "Ok"
     /\ second.kind = "EnsureAction") =>
        /\ result.kind = "Err"
        /\ Num("from_VerificationError") = 1
        /\ log[Len(log)].op = "from_VerificationError"
        /\ result = Err(log[Len(log)].n)
        /\ Num("meet") = 1
        /\ \A m \in Idx("meet") : log[m].on = "self"
        /\ action = "none"

C5_Witness ==
    /\ pc = "done"
    /\ entry = "ensure_verify"
    /\ first.kind = "EnsureAction"
    /\ acted.kind = "Ok"
    /\ second.kind = "EnsureAction"
    /\ result.kind = "Err"
    /\ Num("check_ensure") = 2

\* C6: in ensure_verify(), when the first check reports EnsureAction, meet()
\* succeeds with r and the check on the clone reports Met(m), the result is
\* Ok(r) whatever m is; m is discarded.
C6_VerificationSuccess ==
    (/\ pc = "done"
     /\ entry = "ensure_verify"
     /\ first.kind = "EnsureAction"
     /\ acted.kind = "Ok"
     /\ second.kind = "Met") =>
        /\ result = Ok(acted.val)
        /\ Num("from_VerificationError") = 0

C6_Witness ==
    /\ pc = "done"
    /\ entry = "ensure_verify"
    /\ acted = Ok(1)
    /\ second = Met(2)
    /\ result = Ok(1)

\* Two calls of x.ensure() for the same target type, one in which the check
\* reported Met(v) and one in which the action ran and returned the same v.
BothPaths ==
    /\ pc = "done"
    /\ entry = "ensure"
    /\ ref.target = target
    /\ \/ /\ ref.first.kind = "Met"
          /\ first.kind = "EnsureAction"
          /\ acted = Ok(ref.first.val)
       \/ /\ first.kind = "Met"
          /\ ref.first.kind = "EnsureAction"
          /\ ref.acted = Ok(first.val)

\* C7 as stated: the result of ensure() tells "no change made" from "change
\* made": the Met(v) run and the run whose action returned v yield
\* distinguishable results.
C7_Original == BothPaths => result # ref.result

\* C7 as amended: ensure() returns the bare Result: Ok(v) on the Met path and
\* Ok(v) on the action path, so the two runs yield the same result.
C7_SameResultOnBothPaths ==
    /\ (pc = "done" /\ entry = "ensure") => result.kind \in {"Ok", "Err"}
    /\ BothPaths =>
        /\ result = ref.result
        /\ result = Ok(IF first.kind = "Met" THEN first.val ELSE acted.val)

C7_Witness ==
    /\ BothPaths
    /\ ref.first = Met(2)
    /\ acted = Ok(2)
    /\ result = Ok(2)
    /\ ref.result = Ok(2)

\* C8: one ensure_verify() call clones the subject before the first check,
\* runs check_ensure() at most twice and meet() at most once, runs the second
\* check only on the clone and only after the first check reported
\* EnsureAction and meet() succeeded, and on Met(v) returns Ok(v) after one
\* check and no action, as ensure() does.
C8_VerifySequencing ==
    entry = "ensure_verify" =>
        /\ Num("clone") <= 1
        /\ Num("check_ensure") <= 2
        /\ Num("meet") <= 1
        /\ \A c \in Idx("check_ensure") : \E k \in Idx("clone") : k < c
        /\ \A c \in Idx("check_ensure") : log[c].on = "verify" =>
            /\ first.kind = "EnsureAction"
            /\ acted.kind = "Ok"
            /\ \E m \in Idx("meet") :
                /\ m < c
                /\ \E d \in Idx("check_ensure") : d < m /\ log[d].on = "self"
        /\ \A c, d \in Idx("check_ensure") :
            c < d => (log[c].on = "self" /\ log[d].on = "verify")
        /\ \A c \in Idx("check_ensure") :
            (\A d \in Idx("check_ensure") : c <= d) => log[c].on = "self"
        /\ first.kind = "Met" =>
            /\ pc = "done"
            /\ result = Ok(first.val)
            /\ Num("check_ensure") = 1
            /\ Num("meet") = 0
            /\ SameAsRef(target) => result = ref.result

C8_Witness ==
    /\ pc = "done"
    /\ entry = "ensure_verify"
    /\ Num("clone") = 1
    /\ Num("check_ensure") = 2
    /\ Num("meet") = 1
    /\ log[1].op = "clone"
    /\ second.kind = "Met"

\* C9: every failure inside ensure_verify() ends the call with that failure:
\* a failed first check with E (no action, no second check), a failed meet()
\* with E2 (no second check), a failed second check with E3 (no
\* VerificationError); VerificationError is converted only when the second
\* check reported EnsureAction.
C9_VerifyFailuresSurface ==
    entry = "ensure_verify" =>
        /\ first.kind = "Err" =>
            /\ pc = "done"
            /\ result = Err(first.val)
            /\ Num("meet") = 0
            /\ Num("check_ensure") = 1
        /\ acted.kind = "Err" =>
            /\ pc = "done"
            /\ result = Err(acted.val)
            /\ Num("check_ensure") = 1
            /\ Num("meet") = 1
        /\ second.kind = "Err" =>
            /\ pc = "done"
            /\ acted.kind = "Ok"
            /\ result = Err(second.val)
            /\ Num("from_VerificationError") = 0
        /\ Num("from_VerificationError") > 0 =>
            /\ second.kind = "EnsureAction"
            /\ acted.kind = "Ok"
            /\ first.kind = "EnsureAction"

C9_Witness ==
    /\ pc = "done"
    /\ entry = "ensure_verify"
    /\ acted = Ok(1)
    /\ second = Err(2)
    /\ result = Err(2)

\* The target type x.ensure() is called for behind a convenience entry point.
Corresponding(e) ==
    IF e = "ensure_present" THEN "Present"
    ELSE IF e = "ensure_absent" THEN "Absent"
    ELSE target

\* C10: the free function ensure(x), ensure_present() and ensure_absent()
\* return the same result after the same invocations in the same order as the
\* method x.ensure() for the corresponding target type; behind a closure,
\* check_ensure() calls the closure once and meet() calls the closure once.
C10_ConvenienceAddsNothing ==
    /\ (/\ pc = "done"
        /\ entry \in {"ensure_fn", "ensure_present", "ensure_absent"}
        /\ ref.impl = impl
        /\ SameAsRef(Corresponding(entry))) =>
            /\ result = ref.result
            /\ log = ref.log
    /\ \A i \in DOMAIN log :
        /\ log[i].op = "check_ensure" =>
            IF impl = "closure"
                THEN /\ i + 1 \in DOMAIN log
                     /\ log[i + 1] = [log[i] EXCEPT !.op = "check_closure"]
                ELSE i + 1 \in DOMAIN log => log[i + 1].op # "check_closure"
        /\ log[i].op = "meet" =>
            IF impl = "closure"
                THEN /\ i + 1 \in DOMAIN log
                     /\ log[i + 1] = [log[i] EXCEPT !.op = "action_closure"]
                ELSE i + 1 \in DOMAIN log => log[i + 1].op # "action_closure"
    /\ Num("check_closure") = (IF impl = "closure" THEN Num("check_ensure") ELSE 0)
    /\ Num("action_closure") = (IF impl = "closure" THEN Num("meet") ELSE 0)

C10_Witness ==
    /\ pc = "done"
    /\ entry = "ensure_absent"
    /\ ref.impl = impl
    /\ SameAsRef("Absent")
    /\ first.kind = "EnsureAction"
    /\ acted = Ok(2)
    /\ result = ref.result
    /\ Len(log) = 2

====
